---- MODULE Spec2Model ----
(***************************************************************************)
(* Model of the Telex.im AI agent (src/main.go): the conversation store,   *)
(* the intent / entity / topic extractors, the prompt builder and the      *)
(* request handlers around the completion and relay calls.                 *)
(*                                                                         *)
(* A Go string is modelled as a sequence of one-character strings, so that *)
(* strings.ToLower, strings.Contains, strings.Fields and strings.HasPrefix *)
(* are computed character by character.                                    *)
(***************************************************************************)
EXTENDS Integers, Sequences, FiniteSets, TLC

\* ------------------------------------------------------------------ bounds
\* Total number of requests accepted in one run.
MaxRequests == 3
\* Number of vocabulary pieces concatenated into an extractor input.
MaxPieces == 3
\* Largest single-digit message count, and longest topics list, given to the
\* prompt builder.
MaxCount == 3
MaxTopics == 2

\* ----------------------------------------------------------------- strings
Upper == <<"A","B","C","D","E","F","G","H","I","J","K","L","M",
           "N","O","P","Q","R","S","T","U","V","W","X","Y","Z">>
Lower == <<"a","b","c","d","e","f","g","h","i","j","k","l","m",
           "n","o","p","q","r","s","t","u","v","w","x","y","z">>

\* unicode.ToLower on one character.
LowerChar(c) ==
    IF \E i \in DOMAIN Upper : Upper[i] = c
    THEN Lower[CHOOSE i \in DOMAIN Upper : Upper[i] = c]
    ELSE c

\* strings.ToLower
ToLower(s) == [i \in 1..Len(s) |-> LowerChar(s[i])]

\* strings.Contains
Contains(s, substr) ==
    \E i \in 0..(Len(s) - Len(substr)) : SubSeq(s, i + 1, i + Len(substr)) = substr

\* strings.HasPrefix
HasPrefix(s, prefix) ==
    /\ Len(s) >= Len(prefix)
    /\ SubSeq(s, 1, Len(prefix)) = prefix

\* unicode.IsSpace, on the characters the inputs use.
IsSpace(c) == c \in {" ", "\t", "\n"}

\* strings.Fields: the maximal runs of non-space characters, in order.
RECURSIVE FieldsFrom(_, _, _)
FieldsFrom(s, i, cur) ==
    IF i > Len(s)
    THEN IF cur = <<>> THEN <<>> ELSE <<cur>>
    ELSE IF IsSpace(s[i])
         THEN IF cur = <<>>
              THEN FieldsFrom(s, i + 1, <<>>)
              ELSE <<cur>> \o FieldsFrom(s, i + 1, <<>>)
         ELSE FieldsFrom(s, i + 1, Append(cur, s[i]))

Fields(s) == FieldsFrom(s, 1, <<>>)

\* Concatenation of a sequence of strings.
RECURSIVE Cat(_)
Cat(ss) == IF ss = <<>> THEN <<>> ELSE Head(ss) \o Cat(Tail(ss))

Range(f) == {f[i] : i \in DOMAIN f}

\* ------------------------------------------------------------ extractors
kwHelp   == <<"h","e","l","p">>
kwAssist == <<"a","s","s","i","s","t">>
kwQmark  == <<"?">>
kwThank  == <<"t","h","a","n","k">>
kwHello  == <<"h","e","l","l","o">>
kwHi     == <<"h","i">>

\* Mutant: the "?" rule is tried before the help rule.
extractIntent_QuestionFirst(message) ==
    LET lower == ToLower(message) IN
    IF Contains(lower, kwQmark) THEN "question"
    ELSE IF Contains(lower, kwHelp) \/ Contains(lower, kwAssist) THEN "help_request"
    ELSE IF Contains(lower, kwThank) THEN "gratitude"
    ELSE IF Contains(lower, kwHello) \/ Contains(lower, kwHi) THEN "greeting"
    ELSE "general"

\* extractIntent: the if-chain of main.go, first match returns.
extractIntent(message) ==
    LET lower == ToLower(message) IN
    IF Contains(lower, kwHelp) \/ Contains(lower, kwAssist) THEN "help_request"
    ELSE IF Contains(lower, kwQmark) THEN "question"
    ELSE IF Contains(lower, kwThank) THEN "gratitude"
    ELSE IF Contains(lower, kwHello) \/ Contains(lower, kwHi) THEN "greeting"
    ELSE "general"

\* entities[key] = word on a Go map.
MapSet(m, key, val) ==
    [k \in DOMAIN m \cup {key} |-> IF k = key THEN val ELSE m[k]]

EmptyMap == [k \in {} |-> <<>>]

\* Mutant: an entry already set is kept (first match wins).
EntityStep_FirstWins(entities, word) ==
    LET e1 == IF HasPrefix(word, <<"@">>) /\ "mention" \notin DOMAIN entities
              THEN MapSet(entities, "mention", word)
              ELSE entities
    IN IF HasPrefix(word, <<"#">>) /\ "hashtag" \notin DOMAIN e1
       THEN MapSet(e1, "hashtag", word) ELSE e1

\* One iteration of the loop of extractEntities: both ifs run for every word.
EntityStep(entities, word) ==
    LET e1 == IF HasPrefix(word, <<"@">>) THEN MapSet(entities, "mention", word)
              ELSE entities
    IN IF HasPrefix(word, <<"#">>) THEN MapSet(e1, "hashtag", word) ELSE e1

RECURSIVE EntityLoop(_, _)
EntityLoop(entities, words) ==
    IF words = <<>> THEN entities
    ELSE EntityLoop(EntityStep(entities, Head(words)), Tail(words))

\* extractEntities
extractEntities(message) == EntityLoop(EmptyMap, Fields(ToLower(message)))

kwCode    == <<"c","o","d","e">>
kwPython  == <<"p","y","t","h","o","n">>
kwGo      == <<"g","o">>
kwWeather == <<"w","e","a","t","h","e","r">>
kwHow     == <<"h","o","w">>

\* The keywords map literal of extractTopics.
keywords ==
    [k \in {kwCode, kwPython, kwGo, kwWeather, kwHelp, kwHow} |->
        IF k \in {kwCode, kwPython, kwGo} THEN "programming"
        ELSE IF k = kwWeather THEN "weather"
        ELSE IF k = kwHelp THEN "support"
        ELSE "tutorial"]

\* All orders in which a range loop may visit a set of map keys: the language
\* leaves the iteration order of a map unspecified.
RECURSIVE Orderings(_)
Orderings(S) ==
    IF S = {} THEN {<<>>}
    ELSE UNION {{<<x>> \o o : o \in Orderings(S \ {x})} : x \in S}

\* The body of the range loop of extractTopics for a given visiting order:
\* every keyword found appends its topic, with no check of what is queued.
RECURSIVE TopicLoop(_, _, _)
TopicLoop(topics, lower, order) ==
    IF order = <<>> THEN topics
    ELSE TopicLoop(IF Contains(lower, Head(order))
                   THEN Append(topics, keywords[Head(order)])
                   ELSE topics,
                   lower, Tail(order))

\* extractTopics: the set of lists one call may return. A keyword that does
\* not occur appends nothing, so only the order of the occurring ones matters.
extractTopics(message) ==
    LET lower == ToLower(message)
        found == {k \in DOMAIN keywords : Contains(lower, k)}
    IN {TopicLoop(<<>>, lower, o) : o \in Orderings(found)}

\* Mutant: the loop returns on its first comparison.
contains_FirstOnly(slice, item) == slice # <<>> /\ slice[1] = item

\* contains
contains(slice, item) == \E i \in DOMAIN slice : slice[i] = item

\* ------------------------------------------------------- prompt builder
Digit == <<"0","1","2","3","4","5","6","7","8","9">>

\* fmt.Sprintf("%d", n) for n >= 0, as a sequence of digit characters.
RECURSIVE Itoa(_)
Itoa(n) == IF n < 10 THEN <<Digit[n + 1]>> ELSE Append(Itoa(n \div 10), Digit[(n % 10) + 1])

\* strings.Join
RECURSIVE Join(_, _)
Join(elems, sep) ==
    IF elems = <<>> THEN <<>>
    ELSE IF Len(elems) = 1 THEN <<elems[1]>>
    ELSE <<elems[1], sep>> \o Join(Tail(elems), sep)

Preamble == "You are a helpful AI assistant integrated with Telex.im messaging platform. "
Instruction == "Respond naturally and helpfully to the following message:\n\n"

\* A nil *ConversationContext: as an address, and as what it points to.
Nil == 0
NilContext == [nil |-> TRUE]

\* Mutant: the annotations are written from the second message on.
buildContextPrompt_AfterFirst(ctx, message) ==
    <<Preamble>>
    \o (IF ctx # NilContext /\ ctx.MessageCount > 1
        THEN <<"This is message #">> \o Itoa(ctx.MessageCount) \o <<" in the conversation. ">>
             \o (IF Len(ctx.Topics) > 0
                 THEN <<"Previous topics discussed: ">> \o Join(ctx.Topics, ", ") \o <<". ">>
                 ELSE <<>>)
        ELSE <<>>)
    \o <<Instruction>> \o message

\* Mutant: the topics are listed whenever there are any, whatever the count.
buildContextPrompt_TopicsUngated(ctx, message) ==
    <<Preamble>>
    \o (IF ctx # NilContext /\ ctx.MessageCount > 0
        THEN <<"This is message #">> \o Itoa(ctx.MessageCount) \o <<" in the conversation. ">>
        ELSE <<>>)
    \o (IF ctx # NilContext /\ Len(ctx.Topics) > 0
        THEN <<"Previous topics discussed: ">> \o Join(ctx.Topics, ", ") \o <<". ">>
        ELSE <<>>)
    \o <<Instruction>> \o message

\* buildContextPrompt. The prompt is the sequence of the pieces concatenated:
\* the literals of the code, the digits of the count, the joined topics and
\* the characters of the message. ctx is NilContext or the record pointed to.
buildContextPrompt(ctx, message) ==
    LET p0 == <<Preamble>>
        p1 == IF ctx # NilContext /\ ctx.MessageCount > 0
              THEN p0 \o <<"This is message #">> \o Itoa(ctx.MessageCount)
                      \o <<" in the conversation. ">>
                      \o (IF Len(ctx.Topics) > 0
                          THEN <<"Previous topics discussed: ">>
                               \o Join(ctx.Topics, ", ") \o <<". ">>
                          ELSE <<>>)
              ELSE p0
    IN p1 \o <<Instruction>> \o message

\* --------------------------------------------------------- configuration
\* TELEX_API_KEY, with the value the demo script uses.
telexAPIKey == "test_key_123"
\* AGENT_ID, with the default of main().
agentID == "ai-agent-001"

Apology == "I apologize, but I'm having trouble processing your message right now. Please try again."

\* ------------------------------------------------------------ the inputs
\* The request-serving goroutines that may be in flight.
Procs == {1, 2}

UserIds == {"u1", "u2"}

msgCode == <<"c","o","d","e"," ","P","y","t","h","o","n">>
msgHelp == <<"h","e","l","p"," ","c","o","d","e","?">>
msgHi   == <<"H","i"," ","@","b","o","b">>
msgWeather == <<"g","o"," ","w","e","a","t","h","e","r">>

\* What the completion API may do: answer 200 with a choice, or fail (HTTP
\* error, transport error, timeout, no choice).
GroqOutcomes == {[ok |-> TRUE, content |-> "generated reply"],
                 [ok |-> FALSE, content |-> ""]}

\* What the relay API may do: an HTTP status, or 0 for a transport error or
\* a timeout (client.Do returns an error).
TelexOutcomes == {200, 201, 400, 500, 0}

\* A request body that is not valid JSON.
Malformed == [valid |-> FALSE]

TelexMessageZero == [From |-> "", Content |-> <<>>]
TelexUserZero == [ID |-> "", Name |-> ""]

\* The bodies of POST /webhook/telex that parse into a TelexWebhook.
WebhookBodies(events, senders, messages) ==
    {[valid |-> TRUE, Event |-> e, Message |-> [From |-> f, Content |-> c],
      User |-> TelexUserZero] :
        e \in events \cap {"message.received", "message"}, f \in senders, c \in messages}
    \cup
    {[valid |-> TRUE, Event |-> "user.joined", Message |-> TelexMessageZero,
      User |-> [ID |-> u, Name |-> "New User"]] :
        u \in {f \in senders : "user.joined" \in events /\ f \notin {"", agentID}}}
    \cup
    {[valid |-> TRUE, Event |-> e, Message |-> [From |-> "u1", Content |-> <<>>],
      User |-> TelexUserZero] : e \in events \cap {"user.typing", "channel.created"}}

\* The bodies of POST /api/message that are valid JSON: a field left out
\* decodes as the empty string.
DirectBodies(users, messages) ==
    {[valid |-> TRUE, UserID |-> u, Message |-> m] : u \in users, m \in messages}

\* The environment of a run: whether requests are served one at a time, and
\* the values requests and the two external services are drawn from.
SeqEnv ==
    [serial   |-> TRUE,
     users    |-> UserIds,
     auth     |-> {"Bearer " \o telexAPIKey, "Bearer wrong_key", ""},
     webhook  |-> {Malformed} \cup
                  WebhookBodies({"message.received", "message", "user.joined",
                                 "user.typing", "channel.created"},
                                UserIds \cup {agentID, ""}, {msgCode, msgHelp, msgHi}),
     direct   |-> {Malformed} \cup
                  DirectBodies(UserIds \cup {""}, {msgCode, msgHelp, msgHi, <<>>}),
     groq     |-> GroqOutcomes,
     telex    |-> TelexOutcomes]

ConcEnv ==
    [serial   |-> FALSE,
     users    |-> {"u1"},
     auth     |-> {"Bearer " \o telexAPIKey},
     webhook  |-> WebhookBodies({"message"}, {"u1"}, {msgCode}),
     direct   |-> DirectBodies({"u1"}, {msgCode, msgWeather}),
     groq     |-> {[ok |-> TRUE, content |-> "generated reply"]},
     telex    |-> {200}]

\* --------------------------------------------------------------- state
VARIABLES
    conversationHistory, \* map[string]*ConversationContext: user id -> address
    heap,                \* the ConversationContext records allocated, by address
    g,                   \* per goroutine: position, request, locals, response
    nreq,                \* requests accepted so far
    crashed,             \* the runtime stopped the process (fatal error)
    performed,           \* history: per user id, the updates that have returned
    input,               \* pure-function harness: the message text
    context,             \* pure-function harness: the context given to the prompt builder
    output               \* pure-function harness: what the functions returned

vars == <<conversationHistory, heap, g, nreq, crashed, performed, input, context, output>>
storeVars == <<conversationHistory, heap>>
pureVars == <<input, context, output>>

NoReq == [kind |-> "none"]
NoResp == [code |-> 0]
NoReply == [Reply |-> "", Intent |-> "", Entities |-> EmptyMap, Confidence |-> 0]

\* A goroutine that serves no request.
Idle ==
    [pc |-> "idle", req |-> NoReq, userID |-> "", message |-> <<>>,
     ctx |-> Nil, count |-> 0, topics |-> <<>>, prompt |-> <<>>,
     agentReply |-> NoReply, genErr |-> FALSE, sent |-> <<>>,
     nGroq |-> 0, nTelex |-> 0, resp |-> NoResp]

NoOutput ==
    [pc |-> "intent", intent |-> "", entities |-> EmptyMap, topics |-> <<>>, prompt |-> <<>>]

InitStore ==
    /\ conversationHistory = EmptyMap
    /\ heap = <<>>
    /\ g = [p \in Procs |-> Idle]
    /\ nreq = 0
    /\ crashed = FALSE
    /\ performed = EmptyMap

Init ==
    /\ InitStore
    /\ input = <<>>
    /\ context = NilContext
    /\ output = NoOutput

\* ------------------------------------------------------ store primitives
\* conversationHistory[userID] as `ctx, exists := m[k]`: the address, or Nil.
MapGet(userID) ==
    IF userID \in DOMAIN conversationHistory THEN conversationHistory[userID] ELSE Nil

\* The record a *ConversationContext points to.
Deref(ctx) == IF ctx = Nil THEN NilContext ELSE heap[ctx]

\* Mutant: a new context starts with a count of 1.
NewContext_CountOne(userID) ==
    [UserID |-> userID, LastMessage |-> <<>>, MessageCount |-> 1, Topics |-> <<>>]

\* &ConversationContext{UserID: userID, MessageCount: 0, Topics: []string{}}
NewContext(userID) ==
    [UserID |-> userID, LastMessage |-> <<>>, MessageCount |-> 0, Topics |-> <<>>]

\* Mutant: the increment adds two.
Increment_ByTwo(count) == count + 2


\* ctx.MessageCount++ : the value written, from the value read.
Increment(count) == count + 1

\* The topic tags of a message, whatever order extractTopics lists them in.
TagsOf(message) == UNION {Range(t) : t \in extractTopics(message)}

\* ------------------------------------------------------ handler helpers
Respond(l, code, body) == [l EXCEPT !.pc = "done", !.resp = [code |-> code, body |-> body]]

TelexResponse(status, message) == [Status |-> status, Message |-> message]

\* Mutant: the agent's own messages are processed like any other.
handleIncomingMessage_NoSelfCheck(l, msg) ==
    [l EXCEPT !.pc = "upd_lookup", !.userID = msg.From, !.message = msg.Content]

\* handleIncomingMessage up to the call of updateConversationContext.
handleIncomingMessage(l, msg) ==
    IF msg.From = agentID
    THEN Respond(l, 200, TelexResponse("ignored", ""))
    ELSE [l EXCEPT !.pc = "upd_lookup", !.userID = msg.From, !.message = msg.Content]

\* Mutant: a user.joined event is recorded in the store like a message.
handleUserJoined_Recorded(l, user) ==
    [l EXCEPT !.pc = "upd_lookup", !.userID = user.ID,
              !.message = <<"j", "o", "i", "n", "e", "d">>]


\* handleUserJoined up to the call of sendTelexMessage (the emoji of the
\* welcome text is left out).
handleUserJoined(l, user) ==
    [l EXCEPT !.pc = "telex", !.userID = user.ID,
              !.agentReply = [NoReply EXCEPT !.Reply =
                  "Welcome " \o user.Name \o "! I'm an AI assistant here to help. Feel free to ask me anything!"]]

\* handleTelexWebhook: the bearer check, the JSON binding and the switch on
\* the event, up to the first access to shared state.
handleTelexWebhook(l, authHeader, body) ==
    IF authHeader # "Bearer " \o telexAPIKey
    THEN Respond(l, 401, TelexResponse("error", "Unauthorized"))
    ELSE IF ~body.valid
    THEN Respond(l, 400, TelexResponse("error", "Invalid payload"))
    ELSE IF body.Event \in {"message.received", "message"}
    THEN handleIncomingMessage(l, body.Message)
    ELSE IF body.Event = "user.joined"
    THEN handleUserJoined(l, body.User)
    ELSE Respond(l, 200, TelexResponse("acknowledged", ""))

\* Mutant: the message field is not required.
BindDirect_UserOnly(body) == body.valid /\ body.UserID # ""

\* binding:"required" on the two fields of the direct-message request.
BindDirect(body) == body.valid /\ body.UserID # "" /\ body.Message # <<>>

\* handleDirectMessage up to the call of updateConversationContext.
handleDirectMessage(l, body) ==
    IF ~BindDirect(body)
    THEN Respond(l, 400, [error |-> "binding failed"])
    ELSE [l EXCEPT !.pc = "upd_lookup", !.userID = body.UserID, !.message = body.Message]

\* generateAIResponse after callGroqAPI has returned: (reply, err).
generateAIResponse(message, groq) ==
    IF ~groq.ok
    THEN [reply |-> NoReply, err |-> TRUE]
    ELSE [reply |-> [Reply |-> groq.content, Intent |-> extractIntent(message),
                     Entities |-> extractEntities(message), Confidence |-> 90],
          err |-> FALSE]

\* Mutant: the webhook flow relays whatever generateAIResponse returned, with
\* no fallback for an error.
incomingAfterGenerate_NoFallback(l, res) ==
    [l EXCEPT !.pc = "telex", !.genErr = res.err, !.agentReply = res.reply]

\* Mutant: a failed completion call is tried once more before the fallback.
incomingAfterGenerate_Retry(l, res) ==
    IF res.err /\ l.nGroq < 2
    THEN [l EXCEPT !.pc = "groq"]
    ELSE [l EXCEPT !.pc = "telex", !.genErr = res.err,
                   !.agentReply = IF res.err
                                  THEN [NoReply EXCEPT !.Reply = Apology, !.Confidence = 0]
                                  ELSE res.reply]

\* handleIncomingMessage from the return of generateAIResponse to the call
\* of sendTelexMessage: an error is replaced by the fixed reply.
incomingAfterGenerate(l, res) ==
    [l EXCEPT !.pc = "telex", !.genErr = res.err,
              !.agentReply = IF res.err
                             THEN [NoReply EXCEPT !.Reply = Apology, !.Confidence = 0]
                             ELSE res.reply]

\* handleDirectMessage from the return of generateAIResponse to its end.
directAfterGenerate(l, res) ==
    IF res.err
    THEN Respond([l EXCEPT !.genErr = TRUE], 500, [error |-> "groq API error"])
    ELSE Respond([l EXCEPT !.agentReply = res.reply], 200, res.reply)

\* Mutant: only 200 counts as delivered.
sendTelexMessageErr_Only200(status) == status # 200

\* sendTelexMessage: the error it returns for what the relay call did
\* (0: client.Do failed).
sendTelexMessageErr(status) == status = 0 \/ (status # 200 /\ status # 201)

\* handleIncomingMessage and handleUserJoined after sendTelexMessage.
afterSend(l, sendErr) ==
    IF l.req.body.Event = "user.joined"
    THEN IF sendErr
         THEN Respond(l, 500, TelexResponse("error", "Failed to send welcome message"))
         ELSE Respond(l, 200, TelexResponse("success", ""))
    ELSE IF sendErr
         THEN Respond(l, 500, TelexResponse("error", "Failed to send response"))
         ELSE Respond(l, 200, TelexResponse("success", "Message processed"))

\* The sum of MessageCount over the contexts the map holds.
RECURSIVE SumCounts(_)
SumCounts(keys) ==
    IF keys = {} THEN 0
    ELSE LET k == CHOOSE x \in keys : TRUE
         IN heap[conversationHistory[k]].MessageCount + SumCounts(keys \ {k})

\* ---------------------------------------------------------------- actions
CanBegin(p, env) ==
    /\ ~crashed
    /\ g[p].pc = "idle"
    /\ nreq < MaxRequests
    /\ env.serial => \A q \in Procs : g[q].pc = "idle"

At(p, pc) == ~crashed /\ g[p].pc = pc

\* POST /webhook/telex arrives.
HandleTelexWebhook(p, env) ==
    /\ CanBegin(p, env)
    /\ \E authHeader \in env.auth, body \in env.webhook :
         g' = [g EXCEPT ![p] = handleTelexWebhook(
                  [Idle EXCEPT !.req = [kind |-> "webhook", auth |-> authHeader, body |-> body]],
                  authHeader, body)]
    /\ nreq' = nreq + 1
    /\ UNCHANGED <<storeVars, crashed, performed, pureVars>>

\* POST /api/message arrives.
HandleDirectMessage(p, env) ==
    /\ CanBegin(p, env)
    /\ \E body \in env.direct :
         g' = [g EXCEPT ![p] = handleDirectMessage(
                  [Idle EXCEPT !.req = [kind |-> "direct", body |-> body]], body)]
    /\ nreq' = nreq + 1
    /\ UNCHANGED <<storeVars, crashed, performed, pureVars>>

\* updateConversationContext: ctx, exists := conversationHistory[userID]
UpdLookup(p) ==
    /\ At(p, "upd_lookup")
    /\ g' = [g EXCEPT ![p].ctx = MapGet(g[p].userID),
                      ![p].pc = IF MapGet(g[p].userID) = Nil THEN "upd_create" ELSE "upd_last"]
    /\ UNCHANGED <<storeVars, nreq, crashed, performed, pureVars>>

\* updateConversationContext: the body of `if !exists`.
UpdCreate(p) ==
    /\ At(p, "upd_create")
    /\ heap' = Append(heap, NewContext(g[p].userID))
    /\ conversationHistory' = MapSet(conversationHistory, g[p].userID, Len(heap) + 1)
    /\ g' = [g EXCEPT ![p].ctx = Len(heap) + 1, ![p].pc = "upd_last"]
    /\ UNCHANGED <<nreq, crashed, performed, pureVars>>

\* Mutant: LastMessage is set only while it is empty.
UpdLast_OnlyFirst(p) ==
    /\ At(p, "upd_last")
    /\ heap' = [heap EXCEPT ![g[p].ctx].LastMessage = IF @ = <<>> THEN g[p].message ELSE @]
    /\ g' = [g EXCEPT ![p].pc = "upd_read"]
    /\ UNCHANGED <<conversationHistory, nreq, crashed, performed, pureVars>>

\* updateConversationContext: ctx.LastMessage = message
UpdLast(p) ==
    /\ At(p, "upd_last")
    /\ heap' = [heap EXCEPT ![g[p].ctx].LastMessage = g[p].message]
    /\ g' = [g EXCEPT ![p].pc = "upd_read"]
    /\ UNCHANGED <<conversationHistory, nreq, crashed, performed, pureVars>>

\* updateConversationContext: the read of ctx.MessageCount++
UpdRead(p) ==
    /\ At(p, "upd_read")
    /\ g' = [g EXCEPT ![p].count = heap[g[p].ctx].MessageCount, ![p].pc = "upd_write"]
    /\ UNCHANGED <<storeVars, nreq, crashed, performed, pureVars>>

\* updateConversationContext: the write of ctx.MessageCount++, then
\* topics := extractTopics(message). (ctx.Timestamp is not modelled.)
UpdWrite(p) ==
    /\ At(p, "upd_write")
    /\ heap' = [heap EXCEPT ![g[p].ctx].MessageCount = Increment(g[p].count)]
    /\ \E topics \in extractTopics(g[p].message) :
         g' = [g EXCEPT ![p].topics = topics, ![p].pc = "upd_topics"]
    /\ UNCHANGED <<conversationHistory, nreq, crashed, performed, pureVars>>

\* updateConversationContext: the head of the loop over topics and its
\* `if !contains(ctx.Topics, topic)`; with no topic left the function returns.
UpdTopic(p) ==
    /\ At(p, "upd_topics")
    /\ IF g[p].topics = <<>>
       THEN /\ g' = [g EXCEPT ![p].pc = "gen"]
            /\ performed' = MapSet(performed, g[p].userID,
                 IF g[p].userID \in DOMAIN performed
                 THEN [n    |-> performed[g[p].userID].n + 1,
                       last |-> g[p].message,
                       tags |-> performed[g[p].userID].tags \cup TagsOf(g[p].message)]
                 ELSE [n |-> 1, last |-> g[p].message, tags |-> TagsOf(g[p].message)])
       ELSE /\ g' = IF contains(heap[g[p].ctx].Topics, Head(g[p].topics))
                    THEN [g EXCEPT ![p].topics = Tail(g[p].topics)]
                    ELSE [g EXCEPT ![p].pc = "upd_append"]
            /\ UNCHANGED performed
    /\ UNCHANGED <<storeVars, nreq, crashed, pureVars>>

\* updateConversationContext: ctx.Topics = append(ctx.Topics, topic); the read
\* of ctx.Topics by append and the write of the result are one step.
UpdAppend(p) ==
    /\ At(p, "upd_append")
    /\ heap' = [heap EXCEPT ![g[p].ctx].Topics = Append(@, Head(g[p].topics))]
    /\ g' = [g EXCEPT ![p].topics = Tail(g[p].topics), ![p].pc = "upd_topics"]
    /\ UNCHANGED <<conversationHistory, nreq, crashed, performed, pureVars>>

\* Mutant: the prompt states the count as it was read before the increment.
BuildPrompt_CountBefore(p) ==
    /\ At(p, "gen")
    /\ g' = [g EXCEPT ![p].prompt = buildContextPrompt(
                          [Deref(MapGet(g[p].userID)) EXCEPT !.MessageCount = g[p].count],
                          g[p].message),
                      ![p].pc = "groq"]
    /\ UNCHANGED <<storeVars, nreq, crashed, performed, pureVars>>

\* generateAIResponse: ctx := conversationHistory[userID] and the prompt.
BuildPrompt(p) ==
    /\ At(p, "gen")
    /\ g' = [g EXCEPT ![p].prompt = buildContextPrompt(Deref(MapGet(g[p].userID)), g[p].message),
                      ![p].pc = "groq"]
    /\ UNCHANGED <<storeVars, nreq, crashed, performed, pureVars>>

\* Mutant: a failed completion call takes the message back out of the count.
CallGroq_Rollback(p, env) ==
    /\ At(p, "groq")
    /\ \E groq \in env.groq :
         LET l   == [g[p] EXCEPT !.nGroq = @ + 1]
             res == generateAIResponse(g[p].message, groq)
         IN /\ g' = [g EXCEPT ![p] = IF l.req.kind = "direct"
                                     THEN directAfterGenerate(l, res)
                                     ELSE incomingAfterGenerate(l, res)]
            /\ heap' = IF res.err
                       THEN [heap EXCEPT ![g[p].ctx].MessageCount = @ - 1]
                       ELSE heap
    /\ UNCHANGED <<conversationHistory, nreq, crashed, performed, pureVars>>

\* callGroqAPI returns, and the handler runs on to its next call or its end.
CallGroq(p, env) ==
    /\ At(p, "groq")
    /\ \E groq \in env.groq :
         LET l   == [g[p] EXCEPT !.nGroq = @ + 1]
             res == generateAIResponse(g[p].message, groq)
         IN g' = [g EXCEPT ![p] = IF l.req.kind = "direct"
                                  THEN directAfterGenerate(l, res)
                                  ELSE incomingAfterGenerate(l, res)]
    /\ UNCHANGED <<storeVars, nreq, crashed, performed, pureVars>>

\* sendTelexMessage returns, and the handler answers.
SendTelex(p, env) ==
    /\ At(p, "telex")
    /\ \E status \in env.telex :
         g' = [g EXCEPT ![p] = afterSend(
                  [g[p] EXCEPT !.nTelex = @ + 1,
                               !.sent = Append(@, [To |-> g[p].userID,
                                                   Content |-> g[p].agentReply.Reply,
                                                   status |-> status])],
                  sendTelexMessageErr(status))]
    /\ UNCHANGED <<storeVars, nreq, crashed, performed, pureVars>>

\* GET /api/conversations/:userId arrives (the route matches no empty id).
GetConversationHistoryBegin(p, env) ==
    /\ CanBegin(p, env)
    /\ \E userID \in env.users :
         g' = [g EXCEPT ![p] = [Idle EXCEPT !.req = [kind |-> "lookup"],
                                            !.userID = userID, !.pc = "lookup"]]
    /\ nreq' = nreq + 1
    /\ UNCHANGED <<storeVars, crashed, performed, pureVars>>

\* getConversationHistory
getConversationHistory(l) ==
    LET ctx == MapGet(l.userID) IN
    IF ctx = Nil
    THEN Respond(l, 404, [error |-> "No conversation found"])
    ELSE Respond(l, 200, [userId       |-> heap[ctx].UserID,
                          messageCount |-> heap[ctx].MessageCount,
                          topics       |-> heap[ctx].Topics,
                          lastMessage  |-> heap[ctx].LastMessage])

GetConversationHistory(p) ==
    /\ At(p, "lookup")
    /\ g' = [g EXCEPT ![p] = getConversationHistory(g[p])]
    /\ UNCHANGED <<storeVars, nreq, crashed, performed, pureVars>>

\* GET /api/metrics arrives.
GetMetricsBegin(p, env) ==
    /\ CanBegin(p, env)
    /\ g' = [g EXCEPT ![p] = [Idle EXCEPT !.req = [kind |-> "metrics"], !.pc = "metrics"]]
    /\ nreq' = nreq + 1
    /\ UNCHANGED <<storeVars, crashed, performed, pureVars>>

\* Mutant: totalMessages counts the contexts, not their messages.
getMetrics_CountsContexts(l) ==
    Respond(l, 200, [totalConversations |-> Cardinality(DOMAIN conversationHistory),
                     totalMessages      |-> Cardinality(DOMAIN conversationHistory),
                     activeUsers        |-> Cardinality(DOMAIN conversationHistory)])

\* getMetrics
getMetrics(l) ==
    Respond(l, 200, [totalConversations |-> Cardinality(DOMAIN conversationHistory),
                     totalMessages      |-> SumCounts(DOMAIN conversationHistory),
                     activeUsers        |-> Cardinality(DOMAIN conversationHistory)])

GetMetrics(p) ==
    /\ At(p, "metrics")
    /\ g' = [g EXCEPT ![p] = getMetrics(g[p])]
    /\ UNCHANGED <<storeVars, nreq, crashed, performed, pureVars>>

\* GET /health
HealthCheck(p, env) ==
    /\ CanBegin(p, env)
    /\ g' = [g EXCEPT ![p] = Respond([Idle EXCEPT !.req = [kind |-> "health"]], 200,
                                     [status |-> "healthy", service |-> "telex-ai-agent"])]
    /\ nreq' = nreq + 1
    /\ UNCHANGED <<storeVars, crashed, performed, pureVars>>

\* GET /api/agent/info
GetAgentInfo(p, env) ==
    /\ CanBegin(p, env)
    /\ g' = [g EXCEPT ![p] = Respond([Idle EXCEPT !.req = [kind |-> "info"]], 200,
                                     [agentId |-> agentID, status |-> "online"])]
    /\ nreq' = nreq + 1
    /\ UNCHANGED <<storeVars, crashed, performed, pureVars>>

\* The response has been written: the goroutine ends.
Finish(p) ==
    /\ At(p, "done")
    /\ g' = [g EXCEPT ![p] = Idle]
    /\ UNCHANGED <<storeVars, nreq, crashed, performed, pureVars>>

\* Positions whose next step reads or writes the map conversationHistory.
MapReadPcs == {"upd_lookup", "gen", "lookup", "metrics"}
MapWritePcs == {"upd_create"}

\* Two goroutines are about to access the map, one of them writing: the Go
\* runtime may detect it and end the process (fatal error: concurrent map
\* writes / concurrent map read and map write).
MapRaceFatal ==
    /\ ~crashed
    /\ \E p, q \in Procs :
         /\ p # q
         /\ g[p].pc \in MapWritePcs
         /\ g[q].pc \in MapWritePcs \cup MapReadPcs
    /\ crashed' = TRUE
    /\ UNCHANGED <<storeVars, g, nreq, performed, pureVars>>

Begin(p, env) ==
    \/ HandleTelexWebhook(p, env)
    \/ HandleDirectMessage(p, env)
    \/ GetConversationHistoryBegin(p, env)
    \/ GetMetricsBegin(p, env)
    \/ HealthCheck(p, env)
    \/ GetAgentInfo(p, env)

Step(p, env) ==
    \/ UpdLookup(p)
    \/ UpdCreate(p)
    \/ UpdLast(p)
    \/ UpdRead(p)
    \/ UpdWrite(p)
    \/ UpdTopic(p)
    \/ UpdAppend(p)
    \/ BuildPrompt(p)
    \/ CallGroq(p, env)
    \/ SendTelex(p, env)
    \/ GetConversationHistory(p)
    \/ GetMetrics(p)
    \/ Finish(p)

\* Requests served one at a time.
Next == \E p \in Procs : Begin(p, SeqEnv) \/ Step(p, SeqEnv)

Spec == Init /\ [][Next]_vars

\* Requests served concurrently, one goroutine each.
NextConc == (\E p \in Procs : Begin(p, ConcEnv) \/ Step(p, ConcEnv)) \/ MapRaceFatal

SpecConc == Init /\ [][NextConc]_vars

\* ------------------------------------------------- the extractors alone
\* The vocabulary extractor inputs are concatenated from.
Pieces ==
    {<<"h","e","l","p">>, <<"A","S","S","I","S","T">>, <<"?">>, <<"T","h","a","n","k">>, <<"h","e","l","l","o">>, <<"H","i">>, <<" ">>,
     <<"@","j","o","h","n">>, <<"@","M","a","r","y">>, <<"#","X">>, <<"#","g","o">>, <<"c","o","d","e">>, <<"w","e","a","t","h","e","r">>}

\* Every text made of at most MaxPieces pieces, the empty text included.
Inputs == {Cat(ps) : ps \in UNION {[1..n -> Pieces] : n \in 0..MaxPieces}}

InitPure ==
    /\ InitStore
    /\ input \in Inputs
    /\ context = NilContext
    /\ output = NoOutput

\* intent := extractIntent(message)
ApplyExtractIntent ==
    /\ output.pc = "intent"
    /\ output' = [output EXCEPT !.intent = extractIntent(input), !.pc = "entities"]
    /\ UNCHANGED <<storeVars, g, nreq, crashed, performed, input, context>>

\* entities := extractEntities(message)
ApplyExtractEntities ==
    /\ output.pc = "entities"
    /\ output' = [output EXCEPT !.entities = extractEntities(input), !.pc = "topics"]
    /\ UNCHANGED <<storeVars, g, nreq, crashed, performed, input, context>>

\* topics := extractTopics(message)
ApplyExtractTopics ==
    /\ output.pc = "topics"
    /\ \E topics \in extractTopics(input) :
         output' = [output EXCEPT !.topics = topics, !.pc = "done"]
    /\ UNCHANGED <<storeVars, g, nreq, crashed, performed, input, context>>

NextPure == ApplyExtractIntent \/ ApplyExtractEntities \/ ApplyExtractTopics

SpecPure == InitPure /\ [][NextPure]_vars

\* --------------------------------------------- the prompt builder alone
Tags == {"programming", "weather", "support", "tutorial"}

\* The contexts given to the prompt builder: none, or a record with a count
\* of 0..MaxCount or the two-digit 12 and any list of at most MaxTopics tags.
PromptContexts ==
    {NilContext} \cup
    {[UserID |-> "u1", LastMessage |-> <<>>, MessageCount |-> n, Topics |-> t] :
        n \in (0..MaxCount) \cup {12},
        t \in UNION {[1..k -> Tags] : k \in 0..MaxTopics}}

InitPrompt ==
    /\ InitStore
    /\ input \in {<<>>, msgHi, msgCode}
    /\ context \in PromptContexts
    /\ output = [NoOutput EXCEPT !.pc = "prompt"]

\* contextPrompt := buildContextPrompt(ctx, message)
ApplyBuildContextPrompt ==
    /\ output.pc = "prompt"
    /\ output' = [output EXCEPT !.prompt = buildContextPrompt(context, input), !.pc = "done"]
    /\ UNCHANGED <<storeVars, g, nreq, crashed, performed, input, context>>

NextPrompt == ApplyBuildContextPrompt

SpecPrompt == InitPrompt /\ [][NextPrompt]_vars

\* ================================================================ claims
Authorized(req) == req.kind = "webhook" /\ req.auth = "Bearer " \o telexAPIKey

\* An authorized webhook message event that is not the agent's own message.
AcceptedMessageEvent(req) ==
    /\ Authorized(req)
    /\ req.body.valid
    /\ req.body.Event \in {"message.received", "message"}
    /\ req.body.Message.From # agentID

FallbackReply == [Reply |-> Apology, Intent |-> "", Entities |-> EmptyMap, Confidence |-> 0]

\* The last thing a goroutine handed to sendTelexMessage.
LastSent(p) == g[p].sent[Len(g[p].sent)]

\* What a failed completion call leads to in the webhook flow: the apology
\* with confidence 0 is the reply, it is what is relayed, and the inbound
\* answer is an error only when the relay call failed.
WebhookMasksFailure(p) ==
    /\ g[p].agentReply = FallbackReply
    /\ g[p].pc \in {"telex", "done"}
    /\ g[p].pc = "done" =>
         /\ LastSent(p).Content = Apology
         /\ g[p].resp.code = IF LastSent(p).status \in {200, 201} THEN 200 ELSE 500

C2_RelayDecidesStatus ==
    \A p \in Procs :
        (g[p].pc = "done" /\ AcceptedMessageEvent(g[p].req)) =>
            /\ Len(g[p].sent) = 1
            /\ IF LastSent(p).status \in {200, 201}
               THEN g[p].resp = [code |-> 200, body |-> TelexResponse("success", "Message processed")]
               ELSE g[p].resp = [code |-> 500, body |-> TelexResponse("error", "Failed to send response")]

\* C2 witness: a relay answer of 201 gave 200 "success".
C2_Witness ==
    \E p \in Procs :
        /\ g[p].pc = "done"
        /\ AcceptedMessageEvent(g[p].req)
        /\ LastSent(p).status = 201
        /\ g[p].resp.code = 200

\* A request that fails the bearer check, or passes it with a body that does
\* not parse, or is a direct message that is malformed or lacks a field.
Rejected(req) ==
    \/ req.kind = "webhook" /\ (~Authorized(req) \/ ~req.body.valid)
    \/ req.kind = "direct" /\ (~req.body.valid \/ req.body.UserID = "" \/ req.body.Message = <<>>)

RejectionCode(req) ==
    IF req.kind = "webhook" /\ ~Authorized(req) THEN 401 ELSE 400

\* C3: a request rejected for authentication (401) or payload validation
\* (400) is rejected before any processing: it is answered at once, the
\* conversation store is as it was, and it makes no completion or relay call.
C3_RejectedBeforeProcessing ==
    /\ [](\A p \in Procs :
            Rejected(g[p].req) =>
                /\ g[p].pc = "done"
                /\ g[p].resp.code = RejectionCode(g[p].req)
                /\ g[p].nGroq = 0
                /\ g[p].nTelex = 0
                /\ g[p].sent = <<>>)
    /\ [][\A p \in Procs :
            (g[p].pc = "idle" /\ Rejected(g'[p].req)) =>
                /\ g'[p].pc = "done"
                /\ UNCHANGED <<conversationHistory, heap>>]_vars

\* C3 witness: a request was rejected while the store held a conversation.
C3_Witness ==
    \E p \in Procs :
        /\ Rejected(g[p].req)
        /\ g[p].pc = "done"
        /\ g[p].resp.code \in {400, 401}
        /\ DOMAIN conversationHistory # {}

\* The positions inside updateConversationContext.
UpdPcs == {"upd_lookup", "upd_create", "upd_last", "upd_read", "upd_write",
           "upd_topics", "upd_append"}

\* No store update is in progress.
Quiescent == \A p \in Procs : g[p].pc \notin UpdPcs

\* The context stored for a user id.
CtxOf(u) == heap[conversationHistory[u]]

\* C4: with updates run one at a time, after any sequence of updates the
\* store holds exactly the user ids updated, and each one's messageCount is
\* the number of updates performed for it (1 after the first, +1 for each).
C4_CountEqualsUpdates ==
    Quiescent =>
        /\ DOMAIN conversationHistory = DOMAIN performed
        /\ \A u \in DOMAIN performed : CtxOf(u).MessageCount = performed[u].n

\* C4 witness: a user id has had two updates, and its count is 2.
C4_Witness ==
    /\ Quiescent
    /\ \E u \in DOMAIN performed :
         performed[u].n = 2 /\ CtxOf(u).MessageCount = 2

NoDuplicates(seq) == \A i, j \in DOMAIN seq : i # j => seq[i] # seq[j]

IsPrefix(a, b) == Len(a) <= Len(b) /\ SubSeq(b, 1, Len(a)) = a

\* C5: with updates run one at a time, a stored topics sequence never holds
\* a tag twice, holds after each update exactly the tags of all that user's
\* messages so far, and only ever grows at its end.
C5_TopicsDistinctUnionAppendOnly ==
    /\ [](\A u \in DOMAIN conversationHistory :
            /\ NoDuplicates(CtxOf(u).Topics)
            /\ Quiescent =>
                 /\ u \in DOMAIN performed
                 /\ Range(CtxOf(u).Topics) = performed[u].tags)
    /\ [][\A u \in DOMAIN conversationHistory :
            /\ u \in DOMAIN conversationHistory'
            /\ IsPrefix(heap[conversationHistory[u]].Topics,
                        heap'[conversationHistory'[u]].Topics)]_vars

\* C5 witness: after two updates for a user, the second with a text whose tags
\* include the one stored before, the topics hold that tag and then the new one.
C5_Witness ==
    /\ Quiescent
    /\ \E u \in DOMAIN performed :
         /\ performed[u].n = 2
         /\ performed[u].last = msgHelp
         /\ CtxOf(u).Topics = <<"programming", "support">>

\* C6 as stated: in any interleaving of concurrent handlers, a context that
\* exists for a user id is never removed or replaced by another record, and
\* the messageCount a lookup of that id would return never decreases.
C6_Original ==
    [][\A u \in DOMAIN conversationHistory :
          /\ u \in DOMAIN conversationHistory'
          /\ conversationHistory'[u] = conversationHistory[u]
          /\ heap'[conversationHistory'[u]].MessageCount
               >= heap[conversationHistory[u]].MessageCount]_vars

\* C7: with requests handled one at a time, a lookup answers 404 exactly when
\* no update has been performed for the id, and otherwise answers 200 with the
\* id, its count, its stored topics and the text of its most recent update.
C7_LookupReflectsUpdates ==
    \A p \in Procs :
        (g[p].req.kind = "lookup" /\ g[p].pc = "done") =>
            IF g[p].userID \notin DOMAIN performed
            THEN g[p].resp.code = 404
            ELSE g[p].resp =
                   [code |-> 200,
                    body |-> [userId       |-> g[p].userID,
                              messageCount |-> performed[g[p].userID].n,
                              topics       |-> CtxOf(g[p].userID).Topics,
                              lastMessage  |-> performed[g[p].userID].last]]

\* C7 witness: a lookup after two updates with different texts returned the
\* second text and the count 2.
C7_Witness ==
    \E p \in Procs :
        /\ g[p].req.kind = "lookup"
        /\ g[p].pc = "done"
        /\ g[p].resp.code = 200
        /\ g[p].resp.body.messageCount = 2
        /\ g[p].resp.body.lastMessage = msgHelp
        /\ "programming" \in Range(g[p].resp.body.topics)

\* The number of updates performed, over a set of user ids.
RECURSIVE UpdatesPerformed(_)
UpdatesPerformed(keys) ==
    IF keys = {} THEN 0
    ELSE LET k == CHOOSE x \in keys : TRUE
         IN performed[k].n + UpdatesPerformed(keys \ {k})

\* C8: with requests handled one at a time, the metrics snapshot reports as
\* totalConversations and activeUsers the number of distinct user ids updated,
\* and as totalMessages the number of updates performed since start, which is
\* the sum of the stored counts.
C8_MetricsSnapshot ==
    \A p \in Procs :
        (g[p].req.kind = "metrics" /\ g[p].pc = "done") =>
            /\ g[p].resp.code = 200
            /\ g[p].resp.body.totalConversations = Cardinality(DOMAIN performed)
            /\ g[p].resp.body.activeUsers = Cardinality(DOMAIN performed)
            /\ g[p].resp.body.totalMessages = UpdatesPerformed(DOMAIN performed)
            /\ g[p].resp.body.totalMessages = SumCounts(DOMAIN conversationHistory)

\* C8 witness: a snapshot of one conversation of two messages.
C8_Witness ==
    \E p \in Procs :
        /\ g[p].req.kind = "metrics"
        /\ g[p].pc = "done"
        /\ g[p].resp.body.totalConversations = 1
        /\ g[p].resp.body.totalMessages = 2

\* Case-insensitive occurrence of a lower-case word in a text, character by
\* character.
OccursFold(s, word) ==
    \E i \in 1..(Len(s) - Len(word) + 1) :
        \A j \in 1..Len(word) : LowerChar(s[i + j - 1]) = word[j]

TokenStarts(s, c) ==
    {i \in 1..Len(s) : s[i] = c /\ (i = 1 \/ IsSpace(s[i - 1]))}

\* The token that starts at position i: up to the next space or the end.
TokenAt(s, i) ==
    SubSeq(s, i, CHOOSE e \in i..Len(s) :
                    /\ \A k \in i..e : ~IsSpace(s[k])
                    /\ e = Len(s) \/ IsSpace(s[e + 1]))

Max(S) == CHOOSE x \in S : \A y \in S : y <= x

\* C10: the entity map has a mention entry exactly when some token of the
\* lowercased text starts with "@", and it is the last such token; likewise
\* hashtag with "#"; and it has no other key.
C10_EntitiesLastWins ==
    output.pc \notin {"intent", "entities"} =>
        LET s        == [i \in 1..Len(input) |-> LowerChar(input[i])]
            mentions == TokenStarts(s, "@")
            hashtags == TokenStarts(s, "#")
        IN /\ DOMAIN output.entities =
                {k \in {"mention"} : mentions # {}} \cup {k \in {"hashtag"} : hashtags # {}}
           /\ mentions # {} => output.entities["mention"] = TokenAt(s, Max(mentions))
           /\ hashtags # {} => output.entities["hashtag"] = TokenAt(s, Max(hashtags))

\* C10 witness: a text with two different mention tokens, for which the
\* map holds the second, lowercased.
C10_Witness ==
    /\ output.pc \notin {"intent", "entities"}
    /\ Cardinality(TokenStarts(input, "@")) = 2
    /\ TokenAt(input, 1) = <<"@","j","o","h","n">>
    /\ output.entities["mention"] = <<"@","m","a","r","y">>

\* ------------------------------------------------------------ the prompt
\* The number a sequence of digit characters writes in decimal.
RECURSIVE Decimal(_)
Decimal(ds) ==
    IF ds = <<>> THEN 0
    ELSE 10 * Decimal(SubSeq(ds, 1, Len(ds) - 1))
         + (CHOOSE v \in 0..9 : Digit[v + 1] = ds[Len(ds)])

\* The part of a prompt between the preamble and the instruction, for a
\* prompt that ends with the instruction and the message.
Annotations(prompt, message) == SubSeq(prompt, 2, Len(prompt) - Len(message) - 1)

\* The turn-number annotation opens a sequence of pieces.
HasTurnNumber(a) ==
    /\ a # <<>>
    /\ a[1] = "This is message #"
    /\ \E k \in 3..Len(a) :
         /\ a[k] = " in the conversation. "
         /\ \A i \in 2..(k - 1) : \E v \in 0..9 : Digit[v + 1] = a[i]

\* The number the annotation states, and the pieces after it.
TurnNumber(a) ==
    Decimal(SubSeq(a, 2, (CHOOSE k \in 3..Len(a) : a[k] = " in the conversation. ") - 1))
AfterTurnNumber(a) ==
    SubSeq(a, (CHOOSE k \in 3..Len(a) : a[k] = " in the conversation. ") + 1, Len(a))

\* A sequence of pieces is the topics sentence for the list ts: the tags in
\* order, a ", " between each two.
IsTopicsSentence(r, ts) ==
    /\ Len(r) = 2 * Len(ts) + 1
    /\ r[1] = "Previous topics discussed: "
    /\ r[Len(r)] = ". "
    /\ \A i \in 1..Len(ts) : r[2 * i] = ts[i]
    /\ \A i \in 1..(Len(ts) - 1) : r[2 * i + 1] = ", "

\* C11: the prompt starts with the preamble and ends with the instruction
\* followed by the message; between them it has the turn-number annotation
\* exactly when a context is given with a count above 0, and then the stored
\* topics joined by ", " in stored order exactly when there are topics.
C11_PromptShape ==
    output.pc = "done" =>
        LET pr        == output.prompt
            a         == Annotations(pr, input)
            annotated == context # NilContext /\ context.MessageCount > 0
        IN /\ Len(pr) >= Len(input) + 2
           /\ pr[1] = Preamble
           /\ pr[Len(pr) - Len(input)] = Instruction
           /\ SubSeq(pr, Len(pr) - Len(input) + 1, Len(pr)) = input
           /\ HasTurnNumber(a) <=> annotated
           /\ ~annotated => a = <<>>
           /\ annotated =>
                /\ TurnNumber(a) = context.MessageCount
                /\ IF Len(context.Topics) > 0
                   THEN IsTopicsSentence(AfterTurnNumber(a), context.Topics)
                   ELSE AfterTurnNumber(a) = <<>>

\* C11 witness: count 3 with topics programming, support gives "message #3"
\* and "programming, support".
C11_Witness ==
    /\ output.pc = "done"
    /\ context # NilContext
    /\ context.MessageCount = 3
    /\ context.Topics = <<"programming", "support">>
    /\ Annotations(output.prompt, input) =
         <<"This is message #", "3", " in the conversation. ",
           "Previous topics discussed: ", "programming", ", ", "support", ". ">>

\* The tags of a message: those of the keywords its lower-cased text contains.
MessageTags(message) ==
    LET lower == ToLower(message)
    IN {keywords[k] : k \in {kw \in DOMAIN keywords : Contains(lower, kw)}}

\* The tags a topics sentence lists.
ListedTopics(r) == {r[2 * i] : i \in 1..((Len(r) - 1) \div 2)}

\* The goroutine has built a prompt for the completion client.
PromptBuilt(p) == g[p].pc \in {"groq", "telex", "done"} /\ g[p].prompt # <<>>

\* C12: with requests handled one at a time, the prompt for a user's n-th
\* message comes from the store after that message's own update: it states
\* turn number n, and the topics it lists are the stored ones, the topics of
\* that message among them.
C12_PromptAfterOwnUpdate ==
    \A p \in Procs :
        PromptBuilt(p) =>
            LET u == g[p].userID
                a == Annotations(g[p].prompt, g[p].message)
            IN /\ u \in DOMAIN performed
               /\ HasTurnNumber(a)
               /\ TurnNumber(a) = performed[u].n
               /\ performed[u].last = g[p].message
               /\ MessageTags(g[p].message) \subseteq ListedTopics(AfterTurnNumber(a))
               /\ ListedTopics(AfterTurnNumber(a)) = Range(CtxOf(u).Topics)

\* C12 witness: the prompt for a user's second message states 2 and lists the
\* topics that message brought.
C12_Witness ==
    \E p \in Procs :
        /\ PromptBuilt(p)
        /\ g[p].message = msgHelp
        /\ performed[g[p].userID].n = 2
        /\ TurnNumber(Annotations(g[p].prompt, g[p].message)) = 2
        /\ {"support", "programming"} \subseteq
              ListedTopics(AfterTurnNumber(Annotations(g[p].prompt, g[p].message)))

\* ------------------------------------------------------ the agent's own messages
\* An authorized webhook message event sent by the agent itself.
SelfMessage(req) ==
    /\ Authorized(req)
    /\ req.body.valid
    /\ req.body.Event \in {"message.received", "message"}
    /\ req.body.Message.From = agentID

\* C13: an authorized webhook message event whose sender is the agent itself
\* is answered 200 "ignored" at once, with no completion call and no relay
\* call, and no step taken while it is served changes the store.
C13_SelfMessageIgnored ==
    [][\A p \in Procs :
         /\ SelfMessage(g[p].req) \/ SelfMessage(g'[p].req) => storeVars' = storeVars
         /\ SelfMessage(g'[p].req) =>
              /\ g'[p].pc = "done"
              /\ g'[p].resp = [code |-> 200, body |-> TelexResponse("ignored", "")]
              /\ g'[p].nGroq = 0 /\ g'[p].nTelex = 0 /\ g'[p].sent = <<>>
              /\ g'[p].prompt = <<>>]_vars

\* C13 witness: the agent's own message has been answered "ignored" while
\* the store holds a context.
C13_Witness ==
    \E p \in Procs :
        /\ SelfMessage(g[p].req)
        /\ g[p].pc = "done"
        /\ g[p].resp.body = TelexResponse("ignored", "")
        /\ DOMAIN conversationHistory # {}

\* ------------------------------------------------------------ lost updates
\* C14: with handlers running concurrently an update can be lost, never
\* invented: once every update begun has completed, each user's messageCount
\* is at least 1 and at most the number of updates completed for the id.
C14_CountAtMostUpdates ==
    Quiescent =>
        /\ DOMAIN conversationHistory = DOMAIN performed
        /\ \A u \in DOMAIN performed :
             /\ CtxOf(u).MessageCount >= 1
             /\ CtxOf(u).MessageCount <= performed[u].n

\* C14 witness: two updates for one id have completed, none is in progress,
\* and the id's messageCount is 1.
C14_Witness ==
    /\ Quiescent
    /\ ~crashed
    /\ \E u \in DOMAIN performed :
         performed[u].n = 2 /\ CtxOf(u).MessageCount < performed[u].n

C16_Original ==
    output.pc = "done" => NoDuplicates(output.topics)

\* C17 as stated: topic accumulation is deterministic. Two user ids that
\* each started with no context and had the same single message applied are
\* two runs of the same update sequence from an empty store: their stored
\* topics sequences are the same, tag for tag in the same order.
C17_Original ==
    Quiescent =>
        \A u, v \in DOMAIN performed :
            /\ performed[u].n = 1
            /\ performed[v].n = 1
            /\ performed[u].last = performed[v].last
            => CtxOf(u).Topics = CtxOf(v).Topics

\* ------------------------------------------------- the first turn's prompt
\* The goroutine has built the prompt for the first message of its user id.
FirstTurnPrompt(p) ==
    /\ PromptBuilt(p)
    /\ g[p].userID \in DOMAIN performed
    /\ performed[g[p].userID].n = 1

\* C18 as stated: for the first message ever received from a user id, the
\* prompt built in the message-handling flow has no "This is message #"
\* annotation.
C18_Original ==
    \A p \in Procs :
        FirstTurnPrompt(p) =>
            ~HasTurnNumber(Annotations(g[p].prompt, g[p].message))

\* C18 amended: every prompt built in the message-handling flow carries the
\* turn-number annotation, and for the first message of a user id it reads
\* "This is message #1 in the conversation."
C18_FirstTurnAnnotated ==
    \A p \in Procs :
        /\ PromptBuilt(p) =>
             /\ HasTurnNumber(Annotations(g[p].prompt, g[p].message))
             /\ TurnNumber(Annotations(g[p].prompt, g[p].message)) >= 1
        /\ FirstTurnPrompt(p) =>
             SubSeq(g[p].prompt, 2, 4) =
                <<"This is message #", "1", " in the conversation. ">>

\* C18 witness: the prompt of a user id's first message, which has no topic,
\* is the preamble, the annotation for turn 1, the instruction, the message.
C18_Witness ==
    \E p \in Procs :
        /\ FirstTurnPrompt(p)
        /\ g[p].message = msgHi
        /\ g[p].prompt =
             <<Preamble, "This is message #", "1", " in the conversation. ", Instruction>>
             \o msgHi

\* ------------------------------------------------------- what changes the store
\* The requests that update the store: an authorized message event not from
\* the agent, and a direct-message request with a user id and a message.
Updating(req) ==
    \/ AcceptedMessageEvent(req)
    \/ req.kind = "direct" /\ BindDirect(req.body)

\* Any other request.
NotUpdating(req) == req.kind # "none" /\ ~Updating(req)

\* C19: the store changes only in a step of updateConversationContext run
\* for an authorized non-self message event or a valid direct-message
\* request; no other request enters updateConversationContext, and no step
\* taken while one is served changes the keys or a stored context.
C19_OnlyUpdatesChangeStore ==
    [][/\ storeVars' # storeVars =>
            \E p \in Procs :
                /\ Updating(g[p].req)
                /\ g[p].pc \in UpdPcs
                /\ g'[p] # g[p]
       /\ \A p \in Procs :
            /\ NotUpdating(g'[p].req) => g'[p].pc \notin UpdPcs
            /\ NotUpdating(g[p].req) \/ NotUpdating(g'[p].req) =>
                 storeVars' = storeVars]_vars

\* C19 witness: with a context stored, a user.joined event has been welcomed
\* and answered.
C19_Witness ==
    /\ DOMAIN conversationHistory # {}
    /\ \E p \in Procs :
         /\ g[p].pc = "done"
         /\ Authorized(g[p].req)
         /\ g[p].req.body.valid
         /\ g[p].req.body.Event = "user.joined"
         /\ g[p].nTelex = 1

\* ----------------------------------------------- updates and failed calls
\* The store reflects the message a goroutine is serving: its user id has a
\* context whose lastMessage is the message, whose messageCount counts it and
\* whose topics include its tags.
StoreReflects(p) ==
    LET u == g[p].userID IN
    /\ u \in DOMAIN conversationHistory
    /\ u \in DOMAIN performed
    /\ CtxOf(u).LastMessage = g[p].message
    /\ CtxOf(u).MessageCount = performed[u].n
    /\ CtxOf(u).MessageCount >= 1
    /\ MessageTags(g[p].message) \subseteq Range(CtxOf(u).Topics)

\* The request was answered after its completion call or its relay call
\* failed.
AnsweredAfterFailure(p) ==
    /\ Updating(g[p].req)
    /\ g[p].pc = "done"
    /\ g[p].genErr \/ g[p].resp.code = 500

\* C20: the update comes before the external calls and is not taken back:
\* from the return of the update until the request is answered, whatever the
\* completion call and the relay call returned, the store reflects the
\* message; in particular when the request is answered after a failed call.
C20_UpdateSurvivesFailure ==
    \A p \in Procs :
        /\ Updating(g[p].req) /\ g[p].pc \in {"gen", "groq", "telex", "done"}
             => StoreReflects(p)
        /\ AnsweredAfterFailure(p) => g[p].nGroq = 1 /\ StoreReflects(p)

\* C20 witness: a direct-message request was answered 500 because the
\* completion call failed, and the store reflects its message.
C20_Witness ==
    \E p \in Procs :
        /\ AnsweredAfterFailure(p)
        /\ g[p].req.kind = "direct"
        /\ g[p].resp.code = 500
        /\ g[p].nGroq = 1
        /\ StoreReflects(p)

\* ------------------------------------------------------------ the store's keys
\* C21 as stated: every key of the store is a non-empty user id and every
\* stored context has userId equal to its key; a message event that carries
\* no sender id neither creates nor updates a context.
C21_Original ==
    \A u \in DOMAIN conversationHistory :
        /\ u # ""
        /\ CtxOf(u).UserID = u
====
